---------------------------- MODULE Spec2Model ----------------------------
(***************************************************************************)
(* Model of spotify_converter (src/src/main.rs): a playlist export is      *)
(* rendered to one Markdown or HTML document per playlist plus an index.   *)
(*                                                                         *)
(* A string is a sequence of one-character strings.  A rendered document   *)
(* is the sequence of the pieces the code pushes onto its output String,   *)
(* each piece keeping where it comes from:                                 *)
(*   lit   fixed template text (text)                                      *)
(*   link  a fixed template link (text: label, chars: target)              *)
(*   data  the value inserted for a string field (text: field, chars)      *)
(*   num   the value inserted for an integer (text: field, chars: digits)  *)
(* The arrows of the template labels are written "<-" and "^".             *)
(***************************************************************************)
EXTENDS Integers, Sequences, FiniteSets, TLC

VARIABLES
    format,      \* args.format as given on the command line
    playlists,   \* root.playlists, the loaded collection
    filenames,   \* main's filenames vector / the index renderers' second argument
    i,           \* number of playlists the loop of main has taken
    disk,        \* output directory: file name -> content
    pc,          \* main's position
    status,      \* process exit: "running", "exit0", "exit1"
    err,         \* what main failed on: "none", "format", "input", "create_dir", "write"
    text,        \* argument of the string functions
    fn,          \* the function applied last, "none" before
    sel,         \* index of the playlist a renderer was applied to (0: none)
    result       \* what the function applied last returned

vars == <<format, playlists, filenames, i, disk, pc, status, err, text, fn, sel, result>>

---------------------------------------------------------------------------
(* Bounds of the model *)

MaxNameLen == 3

MaxTextLen == 1

MaxItems == 2

MaxPlaylists == 2

MaxRun == 3

---------------------------------------------------------------------------
(* Strings *)

RECURSIVE Concat(_)
Concat(ss) == IF ss = <<>> THEN <<>> ELSE Head(ss) \o Concat(Tail(ss))

Strings(alphabet, n) == UNION {[1..k -> alphabet] : k \in 0..n}

Contains(s, c) == \E k \in 1..Len(s) : s[k] = c

\* str::replace(char, &str): every occurrence of the character, left to right
RECURSIVE Replace(_, _, _)
Replace(s, from, to) ==
    IF s = <<>> THEN <<>>
    ELSE (IF Head(s) = from THEN to ELSE <<Head(s)>>) \o Replace(Tail(s), from, to)

\* char::is_whitespace on the characters the model draws
IsWhitespace(c) == c \in {" ", "\t", "\n"}

RECURSIVE TrimStart(_)
TrimStart(s) ==
    IF s # <<>> /\ IsWhitespace(Head(s)) THEN TrimStart(Tail(s)) ELSE s

RECURSIVE TrimEnd(_)
TrimEnd(s) ==
    IF s # <<>> /\ IsWhitespace(s[Len(s)]) THEN TrimEnd(SubSeq(s, 1, Len(s) - 1)) ELSE s

\* str::trim
Trim(s) == TrimEnd(TrimStart(s))

Digit(n) == <<"0", "1", "2", "3", "4", "5", "6", "7", "8", "9">>[n + 1]

RECURSIVE Digits(_)
Digits(n) == IF n < 10 THEN <<Digit(n)>> ELSE Digits(n \div 10) \o <<Digit(n % 10)>>

\* Display of an integer ("{}" in format!)
Display(n) == IF n < 0 THEN <<"-">> \o Digits(-n) ELSE Digits(n)

---------------------------------------------------------------------------
(* Pieces of a rendered document *)

Lit(t) == [kind |-> "lit", text |-> t, chars |-> <<>>]

Link(label, target) == [kind |-> "link", text |-> label, chars |-> target]

Data(field, s) == [kind |-> "data", text |-> field, chars |-> s]

Num(field, n) == [kind |-> "num", text |-> field, chars |-> Display(n)]

---------------------------------------------------------------------------
(* The string functions of main.rs *)

ReservedChars == {"/", "\\", ":", "*", "?", "\"", "<", ">", "|"}

\* the pipe left out of the match
SanitizeChar_KeepsPipe(c) == IF c \in ReservedChars \ {"|"} THEN "-" ELSE c

SanitizeChar(c) == IF c \in ReservedChars THEN "-" ELSE c

MapChars(s) == [k \in 1..Len(s) |-> SanitizeChar(s[k])]

sanitize_filename(name) == Trim(MapChars(name))

Amp == <<"&", "a", "m", "p", ";">>

Lt == <<"&", "l", "t", ";">>

Gt == <<"&", "g", "t", ";">>

Quot == <<"&", "q", "u", "o", "t", ";">>

Apos == <<"&", "#", "3", "9", ";">>

\* the ampersand replaced last: the & of the entities written before it is escaped again
escape_html_AmpLast(s) ==
    Replace(Replace(Replace(Replace(Replace(s, "<", Lt), ">", Gt), "\"", Quot), "'", Apos), "&", Amp)

escape_html(s) ==
    Replace(Replace(Replace(Replace(Replace(s, "&", Amp), "<", Lt), ">", Gt), "\"", Quot), "'", Apos)

\* the closing bracket left out
escape_markdown_NoCloseBracket(s) ==
    Replace(Replace(s, "|", <<"\\", "|">>), "[", <<"\\", "[">>)

escape_markdown(s) ==
    Replace(Replace(Replace(s, "|", <<"\\", "|">>), "[", <<"\\", "[">>), "]", <<"\\", "]">>)


---------------------------------------------------------------------------
(* The renderers of main.rs *)

Extension(lower) == IF lower = "html" THEN <<"h", "t", "m", "l">> ELSE <<"m", "d">>

IndexStem == <<"i", "n", "d", "e", "x">>

\* format!("index.{}", extension); the playlist pages hard-code the same two names
IndexFilename(ext) == IndexStem \o <<".">> \o ext

\* The shared style block, and each page's own rules after it
get_common_styles == Lit("body {..} .container {..} h1 {..} a {..} a:hover {..} .back-to-top {..} .back-to-top:hover {..} .nav-link {..}")

MarkdownTableHead ==
    << Lit("## Tracks\n\n"),
       Lit("| # | Track Name | Artist | Album | Added Date |\n"),
       Lit("|---|------------|--------|-------|------------|\n") >>

\* rows numbered from idx instead of idx + 1
MarkdownRow_ZeroBased(idx, item) ==
    << Lit("| "), Num("row", idx),
       Lit(" | ["), Data("track_name", escape_markdown(item.track.track_name)),
       Lit("]("), Data("track_uri", item.track.track_uri),
       Lit(") | "), Data("artist_name", escape_markdown(item.track.artist_name)),
       Lit(" | "), Data("album_name", escape_markdown(item.track.album_name)),
       Lit(" | "), Data("added_date", item.added_date),
       Lit(" |\n") >>

MarkdownRow(idx, item) ==
    << Lit("| "), Num("row", idx + 1),
       Lit(" | ["), Data("track_name", escape_markdown(item.track.track_name)),
       Lit("]("), Data("track_uri", item.track.track_uri),
       Lit(") | "), Data("artist_name", escape_markdown(item.track.artist_name)),
       Lit(" | "), Data("album_name", escape_markdown(item.track.album_name)),
       Lit(" | "), Data("added_date", item.added_date),
       Lit(" |\n") >>

\* the closing link to the index left out
MarkdownFooter_NoIndexLink ==
    << Lit("\n"), Link("^ Back to Top", <<"#">>), Lit("\n\n") >>

MarkdownFooter ==
    << Lit("\n"), Link("^ Back to Top", <<"#">>), Lit("\n\n"),
       Link("<- Back to Index", IndexFilename(Extension("markdown"))), Lit("\n") >>

generate_markdown(playlist) ==
    << Lit("# "), Data("name", playlist.name), Lit("\n\n"),
       Link("<- Back to Index", IndexFilename(Extension("markdown"))), Lit("\n\n"),
       Lit("## Playlist Information\n\n"),
       Lit("- **Last Modified:** "), Data("last_modified_date", playlist.last_modified_date), Lit("\n"),
       Lit("- **Followers:** "), Num("number_of_followers", playlist.number_of_followers), Lit("\n"),
       Lit("- **Total Tracks:** "), Num("items.len", Len(playlist.items)), Lit("\n\n") >>
    \o (IF playlist.items # <<>>
        THEN MarkdownTableHead
             \o Concat([k \in 1..Len(playlist.items) |-> MarkdownRow(k - 1, playlist.items[k])])
        ELSE <<>>)
    \o MarkdownFooter

HtmlHead(title) ==
    << Lit("<!DOCTYPE html>\n<html lang=\"en\">\n<head>\n    <meta charset=\"UTF-8\">\n    <meta name=\"viewport\" ..>\n") >>
    \o title
    \o << Lit("    <style>\n"), get_common_styles >>

HtmlTableHead ==
    << Lit("        <h2>Tracks</h2>\n"),
       Lit("        <table>\n            <thead>\n                <tr>\n"),
       Lit("                    <th class=\"track-number\">#</th>\n"),
       Lit("                    <th>Track Name</th>\n"),
       Lit("                    <th>Artist</th>\n"),
       Lit("                    <th>Album</th>\n"),
       Lit("                    <th>Added Date</th>\n"),
       Lit("                </tr>\n            </thead>\n            <tbody>\n") >>

\* the URI inserted as it is
HtmlRow_RawUri(idx, item) ==
    << Lit("                <tr>\n"),
       Lit("                    <td class=\"track-number\">"), Num("row", idx + 1), Lit("</td>\n"),
       Lit("                    <td><a href=\""), Data("track_uri", item.track.track_uri),
       Lit("\">"), Data("track_name", escape_html(item.track.track_name)), Lit("</a></td>\n"),
       Lit("                    <td>"), Data("artist_name", escape_html(item.track.artist_name)), Lit("</td>\n"),
       Lit("                    <td>"), Data("album_name", escape_html(item.track.album_name)), Lit("</td>\n"),
       Lit("                    <td>"), Data("added_date", escape_html(item.added_date)), Lit("</td>\n"),
       Lit("                </tr>\n") >>

HtmlRow(idx, item) ==
    << Lit("                <tr>\n"),
       Lit("                    <td class=\"track-number\">"), Num("row", idx + 1), Lit("</td>\n"),
       Lit("                    <td><a href=\""), Data("track_uri", escape_html(item.track.track_uri)),
       Lit("\">"), Data("track_name", escape_html(item.track.track_name)), Lit("</a></td>\n"),
       Lit("                    <td>"), Data("artist_name", escape_html(item.track.artist_name)), Lit("</td>\n"),
       Lit("                    <td>"), Data("album_name", escape_html(item.track.album_name)), Lit("</td>\n"),
       Lit("                    <td>"), Data("added_date", escape_html(item.added_date)), Lit("</td>\n"),
       Lit("                </tr>\n") >>

HtmlTableEnd == << Lit("            </tbody>\n        </table>\n") >>

HtmlFooter ==
    << Lit("    </div>\n"),
       Link("^ Top", <<"#">>), Lit("\n"),
       Lit("</body>\n</html>") >>

generate_html(playlist) ==
    HtmlHead(<< Lit("    <title>"), Data("name", escape_html(playlist.name)), Lit("</title>\n") >>)
    \o << Lit("        .metadata {..} .metadata p {..} table {..} th {..} td {..} tr:hover {..} .track-number {..}\n"),
          Lit("    </style>\n</head>\n<body>\n    <div class=\"container\">\n"),
          Link("<- Back to Index", IndexFilename(Extension("html"))), Lit("\n"),
          Lit("        <h1>"), Data("name", escape_html(playlist.name)), Lit("</h1>\n"),
          Lit("        <div class=\"metadata\">\n"),
          Lit("            <p><strong>Last Modified:</strong> "),
          Data("last_modified_date", escape_html(playlist.last_modified_date)), Lit("</p>\n"),
          Lit("            <p><strong>Followers:</strong> "),
          Num("number_of_followers", playlist.number_of_followers), Lit("</p>\n"),
          Lit("            <p><strong>Total Tracks:</strong> "),
          Num("items.len", Len(playlist.items)), Lit("</p>\n"),
          Lit("        </div>\n") >>
    \o (IF playlist.items # <<>>
        THEN HtmlTableHead
             \o Concat([k \in 1..Len(playlist.items) |-> HtmlRow(k - 1, playlist.items[k])])
             \o HtmlTableEnd
        ELSE <<>>)
    \o HtmlFooter

\* the playlists counted instead of their items
total_tracks_CountsPlaylists(ps) == Len(ps)

\* playlists.iter().map(|p| p.items.len()).sum()
RECURSIVE total_tracks(_)
total_tracks(ps) == IF ps = <<>> THEN 0 ELSE Len(Head(ps).items) + total_tracks(Tail(ps))

Min(a, b) == IF a < b THEN a ELSE b

\* playlists.iter().zip(filenames.iter()): pairs up to the shorter length
ZipLen(ps, fs) == Min(Len(ps), Len(fs))

MarkdownIndexEntry(playlist, filename) ==
    << Lit("- [**"), Data("name", playlist.name),
       Lit("**]("), Data("filename", filename),
       Lit(") - "), Num("items.len", Len(playlist.items)),
       Lit(" tracks, "), Num("number_of_followers", playlist.number_of_followers),
       Lit(" followers\n") >>

generate_index_markdown(ps, fs) ==
    << Lit("# My Spotify Playlists\n\n"),
       Lit("**Total Playlists:** "), Num("playlists.len", Len(ps)), Lit("\n\n"),
       Lit("**Total Tracks:** "), Num("total_tracks", total_tracks(ps)), Lit("\n\n"),
       Lit("## Playlists\n\n") >>
    \o Concat([k \in 1..ZipLen(ps, fs) |-> MarkdownIndexEntry(ps[k], fs[k])])

HtmlIndexCard(playlist, filename) ==
    << Lit("            <div class=\"playlist-card\">\n"),
       Lit("                <h3><a href=\""), Data("filename", escape_html(filename)),
       Lit("\">"), Data("name", escape_html(playlist.name)), Lit("</a></h3>\n"),
       Lit("                <div class=\"playlist-meta\">\n"),
       Lit("                    "), Num("items.len", Len(playlist.items)), Lit(" tracks<br>\n"),
       Lit("                    "), Num("number_of_followers", playlist.number_of_followers), Lit(" followers\n"),
       Lit("                </div>\n            </div>\n") >>

generate_index_html(ps, fs) ==
    HtmlHead(<< Lit("    <title>My Spotify Playlists</title>\n") >>)
    \o << Lit("        .stats {..} .stat-card {..} .stat-card h3 {..} .stat-card p {..} .playlist-grid {..} .playlist-card {..} .playlist-card:hover {..} .playlist-card h3 {..} .playlist-card h3 a {..} .playlist-meta {..}\n"),
          Lit("    </style>\n</head>\n<body>\n    <div class=\"container\">\n"),
          Lit("        <h1>My Spotify Playlists</h1>\n"),
          Lit("        <div class=\"stats\">\n            <div class=\"stat-card\">\n                <h3>Total Playlists</h3>\n"),
          Lit("                <p>"), Num("playlists.len", Len(ps)), Lit("</p>\n"),
          Lit("            </div>\n            <div class=\"stat-card\">\n                <h3>Total Tracks</h3>\n"),
          Lit("                <p>"), Num("total_tracks", total_tracks(ps)), Lit("</p>\n"),
          Lit("            </div>\n        </div>\n"),
          Lit("        <h2>Playlists</h2>\n        <div class=\"playlist-grid\">\n") >>
    \o Concat([k \in 1..ZipLen(ps, fs) |-> HtmlIndexCard(ps[k], fs[k])])
    \o << Lit("        </div>\n    </div>\n</body>\n</html>") >>

---------------------------------------------------------------------------
(* Inputs.  Every string field of the export carries a tag naming the field *)
(* and its position (playlist j, item k) followed by a drawn string s, so   *)
(* that a value in the output is traced to the one field it comes from.     *)

MkTrack(j, k, s) ==
    [ track_name  |-> <<"t", Digit(j), Digit(k)>> \o s,
      artist_name |-> <<"r", Digit(j), Digit(k)>> \o s,
      album_name  |-> <<"l", Digit(j), Digit(k)>> \o s,
      track_uri   |-> <<"u", Digit(j), Digit(k)>> \o s ]

MkItem(j, k, s) == [ track |-> MkTrack(j, k, s), added_date |-> <<"d", Digit(j), Digit(k)>> \o s ]

\* numberOfFollowers is any i64: negative, zero and positive values occur
Followers(j) == j - 2

MkPlaylist(j, name, n, s) ==
    [ name                |-> name,
      last_modified_date  |-> <<"m", Digit(j)>> \o s,
      items               |-> [k \in 1..n |-> MkItem(j, k, s)],
      number_of_followers |-> Followers(j) ]

HtmlSpecial == {"&", "<", ">", "\"", "'"}

MdSpecial == {"|", "[", "]"}

\* Strings drawn for the renderers: HTML's characters, and Markdown's with the backslash
DocStrings == Strings(HtmlSpecial, MaxTextLen) \cup Strings(MdSpecial \cup {"\\"}, MaxTextLen)

\* Strings drawn for sanitize_filename
NameChars == ReservedChars \cup {" ", "\t", "-", "a"}

\* Playlist names drawn for a run of main: "a/&" and "a:&" give the same file
\* name, "index" gives the index's
RunNames == { IndexStem, <<"a", "/", "&">>, <<"a", ":", "&">> }

RunCollections ==
    UNION { { [j \in 1..n |-> MkPlaylist(j, names[j], counts[j], <<>>)] :
                names \in [1..n -> RunNames], counts \in [1..n -> 0..1] } : n \in 0..MaxRun }

RenderCollections(s) ==
    UNION { { [j \in 1..n |-> MkPlaylist(j, <<"n", Digit(j)>> \o s, counts[j], s)] :
                counts \in [1..n -> 0..MaxItems] } : n \in 0..MaxPlaylists }

RenderFilenames(s) == { [j \in 1..n |-> <<"f", Digit(j)>> \o s] : n \in 0..MaxPlaylists }

Formats == {"markdown", "html", "HTML", "pdf"}

\* str::to_lowercase on the format values drawn
to_lowercase(f) == IF f = "HTML" THEN "html" ELSE f

EmptyDir == [f \in {} |-> <<>>]

\* an existing file kept instead of replaced
Written_KeepsExisting(d, path, content) ==
    [f \in DOMAIN d \cup {path} |-> IF f \in DOMAIN d THEN d[f] ELSE content]

\* fs::write(path, content): the file is created or replaced
Written(d, path, content) ==
    [f \in DOMAIN d \cup {path} |-> IF f = path THEN content ELSE d[f]]

---------------------------------------------------------------------------
(* main *)

Lower == to_lowercase(format)

extension == Extension(Lower)

Filename(playlist) == sanitize_filename(playlist.name) \o <<".">> \o extension

Content(playlist) ==
    IF Lower = "html" THEN generate_html(playlist) ELSE generate_markdown(playlist)

IndexContent ==
    IF Lower = "html" THEN generate_index_html(playlists, filenames)
    ELSE generate_index_markdown(playlists, filenames)

Idle == /\ text = <<>> /\ fn = "none" /\ sel = 0 /\ result = <<>>

Init ==
    /\ format \in Formats
    /\ playlists \in RunCollections
    /\ filenames = <<>>
    /\ i = 0
    /\ disk = EmptyDir
    /\ pc = "args"
    /\ status = "running"
    /\ err = "none"
    /\ Idle

Exit(code, why) ==
    /\ pc' = "exited"
    /\ status' = code
    /\ err' = why

\* Args::parse and the format check
ValidateFormat ==
    /\ pc = "args"
    /\ IF Lower # "markdown" /\ Lower # "html"
       THEN Exit("exit1", "format")
       ELSE pc' = "read" /\ UNCHANGED <<status, err>>
    /\ UNCHANGED <<format, playlists, filenames, i, disk, text, fn, sel, result>>

\* fs::read_to_string and serde_json::from_str succeed: root is the collection
ReadInput ==
    /\ pc = "read"
    /\ pc' = "mkdir"
    /\ UNCHANGED <<format, playlists, filenames, i, disk, status, err, text, fn, sel, result>>

\* the file cannot be read, or does not parse as the schema: main returns Err
ReadInputFails ==
    /\ pc = "read"
    /\ Exit("exit1", "input")
    /\ UNCHANGED <<format, playlists, filenames, i, disk, text, fn, sel, result>>

\* fs::create_dir_all succeeds
CreateDir ==
    /\ pc = "mkdir"
    /\ pc' = "loop"
    /\ UNCHANGED <<format, playlists, filenames, i, disk, status, err, text, fn, sel, result>>

CreateDirFails ==
    /\ pc = "mkdir"
    /\ Exit("exit1", "create_dir")
    /\ UNCHANGED <<format, playlists, filenames, i, disk, text, fn, sel, result>>

\* the file name pushed only when it is not in the vector yet
ProcessPlaylist_PushesNewOnly ==
    /\ pc = "loop"
    /\ i < Len(playlists)
    /\ disk' = Written(disk, Filename(playlists[i + 1]), Content(playlists[i + 1]))
    /\ filenames' = IF \E k \in 1..Len(filenames) : filenames[k] = Filename(playlists[i + 1])
                    THEN filenames
                    ELSE Append(filenames, Filename(playlists[i + 1]))
    /\ i' = i + 1
    /\ UNCHANGED <<format, playlists, pc, status, err, text, fn, sel, result>>

\* one iteration of the loop over root.playlists, the write succeeding
ProcessPlaylist ==
    /\ pc = "loop"
    /\ i < Len(playlists)
    /\ disk' = Written(disk, Filename(playlists[i + 1]), Content(playlists[i + 1]))
    /\ filenames' = Append(filenames, Filename(playlists[i + 1]))
    /\ i' = i + 1
    /\ UNCHANGED <<format, playlists, pc, status, err, text, fn, sel, result>>

\* the error dropped and the loop going on with the next playlist
ProcessPlaylistFails_Continues ==
    /\ pc = "loop"
    /\ i < Len(playlists)
    /\ filenames' = Append(filenames, Filename(playlists[i + 1]))
    /\ i' = i + 1
    /\ UNCHANGED <<format, playlists, disk, pc, status, err, text, fn, sel, result>>

\* the iteration's fs::write returns Err: `?` returns it from main. The failing
\* call is taken to leave the directory as it was.
ProcessPlaylistFails ==
    /\ pc = "loop"
    /\ i < Len(playlists)
    /\ Exit("exit1", "write")
    /\ UNCHANGED <<format, playlists, filenames, i, disk, text, fn, sel, result>>

\* after the loop: the index is rendered and written, main returns Ok(())
WriteIndex ==
    /\ pc = "loop"
    /\ i = Len(playlists)
    /\ disk' = Written(disk, IndexFilename(extension), IndexContent)
    /\ Exit("exit0", "none")
    /\ UNCHANGED <<format, playlists, filenames, i, text, fn, sel, result>>

WriteIndexFails ==
    /\ pc = "loop"
    /\ i = Len(playlists)
    /\ Exit("exit1", "write")
    /\ UNCHANGED <<format, playlists, filenames, i, disk, text, fn, sel, result>>

Next ==
    \/ ValidateFormat
    \/ ReadInput
    \/ ReadInputFails
    \/ CreateDir
    \/ CreateDirFails
    \/ ProcessPlaylist
    \/ ProcessPlaylistFails
    \/ WriteIndex
    \/ WriteIndexFails

Spec == Init /\ [][Next]_vars

---------------------------------------------------------------------------
(* The renderers applied to drawn collections *)

NotRunning ==
    /\ format = "markdown"
    /\ i = 0
    /\ disk = EmptyDir
    /\ pc = "lib"
    /\ status = "running"
    /\ err = "none"

RenderInit ==
    /\ text \in DocStrings
    /\ playlists \in RenderCollections(text)
    /\ filenames \in RenderFilenames(text)
    /\ fn = "none"
    /\ sel = 0
    /\ result = <<>>
    /\ NotRunning

Apply(name, j, value) ==
    /\ fn = "none"
    /\ fn' = name
    /\ sel' = j
    /\ result' = value
    /\ UNCHANGED <<format, playlists, filenames, i, disk, pc, status, err, text>>

GenerateMarkdown == \E j \in 1..Len(playlists) : Apply("generate_markdown", j, generate_markdown(playlists[j]))

GenerateHtml == \E j \in 1..Len(playlists) : Apply("generate_html", j, generate_html(playlists[j]))

GenerateIndexMarkdown == Apply("generate_index_markdown", 0, generate_index_markdown(playlists, filenames))

GenerateIndexHtml == Apply("generate_index_html", 0, generate_index_html(playlists, filenames))

RenderNext ==
    \/ GenerateMarkdown
    \/ GenerateHtml
    \/ GenerateIndexMarkdown
    \/ GenerateIndexHtml

RenderSpec == RenderInit /\ [][RenderNext]_vars

---------------------------------------------------------------------------
(* sanitize_filename applied to drawn names *)

SanitizeInit ==
    /\ text \in Strings(NameChars, MaxNameLen)
    /\ playlists = <<>>
    /\ filenames = <<>>
    /\ fn = "none"
    /\ sel = 0
    /\ result = <<>>
    /\ NotRunning

SanitizeFilename == Apply("sanitize_filename", 0, sanitize_filename(text))

SanitizeNext == SanitizeFilename

SanitizeSpec == SanitizeInit /\ [][SanitizeNext]_vars

---------------------------------------------------------------------------
(* What the claims speak of *)

Range(f) == {f[k] : k \in DOMAIN f}

Pieces(doc, kind, field) == SelectSeq(doc, LAMBDA piece : piece.kind = kind /\ piece.text = field)

\* The values inserted for a field, in document order
Values(doc, kind, field) ==
    LET found == Pieces(doc, kind, field)
    IN  [k \in 1..Len(found) |-> found[k].chars]

\* Targets of the template links, in document order
Links(doc) == SelectSeq(doc, LAMBDA piece : piece.kind = "link")

LinkTargets(doc) ==
    LET found == Links(doc)
    IN  [k \in 1..Len(found) |-> found[k].chars]

Position(doc, piece) == CHOOSE k \in 1..Len(doc) : doc[k] = piece /\ \A m \in 1..(k - 1) : doc[m] # piece

\* One pass over the text, each character replaced once by its entity
Entity(c) ==
    CASE c = "&" -> Amp
      [] c = "<" -> Lt
      [] c = ">" -> Gt
      [] c = "\"" -> Quot
      [] c = "'" -> Apos
      [] OTHER -> <<c>>

HtmlEscaped(s) == Concat([k \in 1..Len(s) |-> Entity(s[k])])

\* No raw < > " ' and every & opens one of the five entities
NoRawHtml(s) ==
    /\ \A k \in 1..Len(s) : s[k] \notin {"<", ">", "\"", "'"}
    /\ \A k \in 1..Len(s) : s[k] = "&" =>
          \E e \in {Amp, Lt, Gt, Quot, Apos} :
              k + Len(e) - 1 <= Len(s) /\ SubSeq(s, k, k + Len(e) - 1) = e

MdEscaped(s) == Concat([k \in 1..Len(s) |-> IF s[k] \in {"|", "[", "]"} THEN <<"\\", s[k]>> ELSE <<s[k]>>])

BackslashBeforeEach(s) ==
    \A k \in 1..Len(s) : s[k] \in {"|", "[", "]"} => k > 1 /\ s[k - 1] = "\\"

Applied(names) == fn \in names

Rendered == playlists[sel]

ItemCount == Len(Rendered.items)

TrackName(item) == item.track.track_name

ArtistName(item) == item.track.artist_name

AlbumName(item) == item.track.album_name

TrackUri(item) == item.track.track_uri

AddedDate(item) == item.added_date

Items == Rendered.items

---------------------------------------------------------------------------
C1_TextFields == {"name", "last_modified_date", "track_name", "artist_name", "album_name", "added_date", "filename"}

(* C1: in generate_html and generate_index_html the value inserted for     *)
(* every user-supplied text field (playlist name, last-modified value,     *)
(* track name, artist, album, added date, file name of an index link) is   *)
(* the field with each & < > " ' replaced once by its entity: no raw       *)
(* < > " ' remains, every & of the data reads &amp;, and the & of an       *)
(* entity is not escaped again.                                            *)
C1_HtmlEscapesUserText ==
    /\ Applied({"generate_html"}) =>
          /\ Values(result, "data", "name") = <<HtmlEscaped(Rendered.name), HtmlEscaped(Rendered.name)>>
          /\ Values(result, "data", "last_modified_date") = <<HtmlEscaped(Rendered.last_modified_date)>>
          /\ Values(result, "data", "track_name") = [k \in 1..ItemCount |-> HtmlEscaped(TrackName(Items[k]))]
          /\ Values(result, "data", "artist_name") = [k \in 1..ItemCount |-> HtmlEscaped(ArtistName(Items[k]))]
          /\ Values(result, "data", "album_name") = [k \in 1..ItemCount |-> HtmlEscaped(AlbumName(Items[k]))]
          /\ Values(result, "data", "added_date") = [k \in 1..ItemCount |-> HtmlEscaped(AddedDate(Items[k]))]
    /\ Applied({"generate_index_html"}) =>
          /\ Values(result, "data", "name") =
                [k \in 1..ZipLen(playlists, filenames) |-> HtmlEscaped(playlists[k].name)]
          /\ Values(result, "data", "filename") =
                [k \in 1..ZipLen(playlists, filenames) |-> HtmlEscaped(filenames[k])]
    /\ Applied({"generate_html", "generate_index_html"}) =>
          \A k \in 1..Len(result) :
              result[k].kind = "data" /\ result[k].text \in C1_TextFields => NoRawHtml(result[k].chars)

\* a page with a track whose fields all hold a '<' has been rendered
C1_Witness ==
    /\ Applied({"generate_html"})
    /\ ItemCount >= 1
    /\ text = <<"<">>
    /\ Values(result, "data", "artist_name")[1] = <<"r", Digit(sel), "1">> \o Lt

---------------------------------------------------------------------------
(* C2 as stated: in generate_html the href of every track link is the      *)
(* input trackUri character for character, also when the URI holds         *)
(* & < > " or '.                                                            *)
C2_HrefIsRawUri ==
    Applied({"generate_html"}) =>
        Values(result, "data", "track_uri") = [k \in 1..ItemCount |-> TrackUri(Items[k])]

(* C2 amended: the href of every track link is the trackUri passed through *)
(* escape_html, and it is the input character for character exactly when   *)
(* the URI holds none of & < > " '.                                         *)
C2_HrefIsEscapedUri ==
    Applied({"generate_html"}) =>
        LET hrefs == Values(result, "data", "track_uri")
        IN  /\ hrefs = [k \in 1..ItemCount |-> HtmlEscaped(TrackUri(Items[k]))]
            /\ \A k \in 1..ItemCount :
                  (hrefs[k] = TrackUri(Items[k])) <=> (\A c \in HtmlSpecial : ~Contains(TrackUri(Items[k]), c))

\* a page with a track whose URI holds one of the five characters has been rendered
C2_Witness ==
    /\ Applied({"generate_html"})
    /\ ItemCount >= 1
    /\ \E c \in HtmlSpecial : Contains(TrackUri(Items[1]), c)

---------------------------------------------------------------------------
C3_Nine == {"/", "\\", ":", "*", "?", "\"", "<", ">", "|"}

C3_Expected(c) == IF c \in C3_Nine THEN "-" ELSE c

(* C3: sanitize_filename replaces each of / \ : * ? " < > | by '-', leaves *)
(* every other character as it is and removes only the whitespace before   *)
(* the first and after the last non-whitespace character; the result holds *)
(* none of the nine characters and is empty exactly when the name is empty *)
(* or all whitespace.                                                      *)
C3_Sanitized ==
    Applied({"sanitize_filename"}) =>
        /\ \A k \in 1..Len(result) : result[k] \notin C3_Nine
        /\ (result = <<>>) <=> (\A k \in 1..Len(text) : text[k] \in {" ", "\t", "\n"})
        /\ \E a \in 1..(Len(text) + 1) : \E b \in 0..Len(text) :
              /\ Len(result) = b - a + 1
              /\ \A k \in a..b : result[k - a + 1] = C3_Expected(text[k])
              /\ \A k \in 1..(a - 1) : text[k] \in {" ", "\t", "\n"}
              /\ \A k \in (b + 1)..Len(text) : text[k] \in {" ", "\t", "\n"}
              /\ result # <<>> => text[a] \notin {" ", "\t", "\n"} /\ text[b] \notin {" ", "\t", "\n"}

\* a name of whitespace, a reserved character and whitespace again gives "-"
C3_Witness ==
    /\ Applied({"sanitize_filename"})
    /\ Len(text) = 3
    /\ text[1] = " "
    /\ text[2] \in C3_Nine
    /\ text[3] = "\t"
    /\ result = <<"-">>

---------------------------------------------------------------------------
(* C4: in every track row of generate_markdown the track, artist and album *)
(* names appear with each | [ ] preceded by a backslash (a name with none  *)
(* of them unchanged), and the link target and the added date are the raw  *)
(* trackUri and addedDate.                                                 *)
C4_MarkdownRowEscapes ==
    Applied({"generate_markdown"}) =>
        LET tracks  == Values(result, "data", "track_name")
            artists == Values(result, "data", "artist_name")
            albums  == Values(result, "data", "album_name")
        IN  /\ tracks = [k \in 1..ItemCount |-> MdEscaped(TrackName(Items[k]))]
            /\ artists = [k \in 1..ItemCount |-> MdEscaped(ArtistName(Items[k]))]
            /\ albums = [k \in 1..ItemCount |-> MdEscaped(AlbumName(Items[k]))]
            /\ Values(result, "data", "track_uri") = [k \in 1..ItemCount |-> TrackUri(Items[k])]
            /\ Values(result, "data", "added_date") = [k \in 1..ItemCount |-> AddedDate(Items[k])]
            /\ \A k \in 1..ItemCount :
                  /\ BackslashBeforeEach(tracks[k])
                  /\ BackslashBeforeEach(artists[k])
                  /\ BackslashBeforeEach(albums[k])
                  /\ (\A c \in {"|", "[", "]"} : ~Contains(AlbumName(Items[k]), c))
                        => albums[k] = AlbumName(Items[k])

\* a row whose names, URI and date all hold a ']' has been rendered
C4_Witness ==
    /\ Applied({"generate_markdown"})
    /\ ItemCount >= 1
    /\ text = <<"]">>
    /\ Contains(Values(result, "data", "album_name")[1], "\\")
    /\ ~Contains(Values(result, "data", "track_uri")[1], "\\")

---------------------------------------------------------------------------
C5_AllItems == UNION {{<<j, k>> : k \in 1..Len(playlists[j].items)} : j \in 1..Len(playlists)}

(* C5: in both index formats the total track count shown is the number of  *)
(* items of all playlists of the collection together and the playlist      *)
(* count shown is the length of the collection, whatever the file-name     *)
(* sequence is: also for the empty collection, and when fewer file names   *)
(* than playlists are given and fewer entries are listed.                  *)
C5_IndexTotals ==
    Applied({"generate_index_markdown", "generate_index_html"}) =>
        /\ Values(result, "num", "total_tracks") = <<Display(Cardinality(C5_AllItems))>>
        /\ Values(result, "num", "playlists.len") = <<Display(Len(playlists))>>
        /\ Len(Values(result, "data", "filename")) = Min(Len(playlists), Len(filenames))

\* an index over two playlists with tracks, rendered with a single file name
C5_Witness ==
    /\ Applied({"generate_index_markdown", "generate_index_html"})
    /\ Len(playlists) = 2
    /\ Len(filenames) = 1
    /\ Len(playlists[1].items) >= 1
    /\ Len(playlists[2].items) >= 1
    /\ Len(Values(result, "data", "filename")) = 1

---------------------------------------------------------------------------
C6_TablePieces == Range(MarkdownTableHead) \cup Range(HtmlTableHead) \cup Range(HtmlTableEnd)

C6_RowFields == {"row", "track_name", "track_uri", "artist_name", "album_name", "added_date"}

C6_TableHead == IF fn = "generate_html" THEN HtmlTableHead ELSE MarkdownTableHead

(* C6: in both formats the playlist document has a track table exactly     *)
(* when the playlist has items: with n >= 1 items the table has n rows     *)
(* numbered 1..n in the order of the items; with no item the heading, the  *)
(* header row and the rows are all absent, and the last-modified value,    *)
(* the follower count and the total track count (0) are still there.       *)
C6_TableIffItems ==
    Applied({"generate_markdown", "generate_html"}) =>
        /\ Len(Values(result, "data", "last_modified_date")) = 1
        /\ Values(result, "num", "number_of_followers") = <<Display(Rendered.number_of_followers)>>
        /\ Values(result, "num", "items.len") = <<Display(ItemCount)>>
        /\ ItemCount = 0 =>
              /\ \A k \in 1..Len(result) :
                    result[k] \notin C6_TablePieces /\ result[k].text \notin C6_RowFields
              /\ Values(result, "num", "items.len") = <<(<<"0">>)>>
        /\ ItemCount >= 1 =>
              LET rows   == Pieces(result, "num", "row")
                  tracks == Values(result, "data", "track_name")
                  dates  == Values(result, "data", "added_date")
                  start  == Position(result, C6_TableHead[Len(C6_TableHead)])
              IN  /\ \A k \in 1..Len(C6_TableHead) :
                        Len(SelectSeq(result, LAMBDA piece : piece = C6_TableHead[k])) = 1
                  /\ Values(result, "num", "row") = [k \in 1..ItemCount |-> <<Digit(k)>>]
                  /\ Len(tracks) = ItemCount
                  /\ \A k \in 1..ItemCount :
                        /\ SubSeq(tracks[k], 1, 3) = <<"t", Digit(sel), Digit(k)>>
                        /\ SubSeq(dates[k], 1, 3) = <<"d", Digit(sel), Digit(k)>>
                        /\ start < Position(result, rows[k])

\* a page of a playlist with two tracks has been rendered
C6_Witness ==
    /\ Applied({"generate_markdown", "generate_html"})
    /\ ItemCount = 2
    /\ Len(Values(result, "num", "row")) = 2

---------------------------------------------------------------------------
C7_IndexOfFormat == IndexStem \o <<".">> \o (IF fn = "generate_html" THEN <<"h", "t", "m", "l">> ELSE <<"m", "d">>)

C7_NavBeforeMetadata ==
    /\ LinkTargets(result) # <<>>
    /\ LinkTargets(result)[1] = C7_IndexOfFormat
    /\ Position(result, Links(result)[1])
          < Position(result, Pieces(result, "data", "last_modified_date")[1])

(* C7 as stated: in both formats the playlist document has a link to the   *)
(* index near the top and ends with a back-to-top link followed by a       *)
(* second link to the index of its format, so it has two links to the      *)
(* index.                                                                  *)
C7_TwoIndexLinks ==
    Applied({"generate_markdown", "generate_html"}) =>
        /\ C7_NavBeforeMetadata
        /\ LinkTargets(result) = <<C7_IndexOfFormat, <<"#">>, C7_IndexOfFormat>>

(* C7 amended: in both formats the playlist document has a link to the     *)
(* index of its format near the top and a back-to-top link after the       *)
(* content; the Markdown document then ends with a second link to          *)
(* index.md (two links to the index), the HTML document has no second      *)
(* link (one link to index.html).                                          *)
C7_IndexLinksPerFormat ==
    Applied({"generate_markdown", "generate_html"}) =>
        /\ C7_NavBeforeMetadata
        /\ LET top == Position(result, Links(result)[2])
           IN  \A k \in 1..Len(result) : result[k].kind \in {"data", "num"} => k < top
        /\ fn = "generate_markdown" =>
              LinkTargets(result) = <<C7_IndexOfFormat, <<"#">>, C7_IndexOfFormat>>
        /\ fn = "generate_html" =>
              LinkTargets(result) = <<C7_IndexOfFormat, <<"#">>>>

\* both a Markdown and an HTML page are rendered; this is the HTML one, with tracks
C7_Witness ==
    /\ Applied({"generate_html"})
    /\ ItemCount >= 1
    /\ Len(LinkTargets(result)) = 2

---------------------------------------------------------------------------
(* The directory a run of main is expected to leave *)

Succeeded == status = "exit0"

NameOf(j) == Filename(playlists[j])

\* the last of the first k playlists whose file name is f
LastNamed(f, k) == CHOOSE j \in 1..k : NameOf(j) = f /\ \A m \in (j + 1)..k : NameOf(m) # f

\* the files of playlists 1..k, each name holding its last writer's page
PlaylistFiles(k) == [f \in {NameOf(j) : j \in 1..k} |-> Content(playlists[LastNamed(f, k)])]

IndexName == IndexStem \o <<".">> \o (IF to_lowercase(format) = "html" THEN <<"h", "t", "m", "l">> ELSE <<"m", "d">>)

AllNames == [j \in 1..Len(playlists) |-> NameOf(j)]

IndexOverAll ==
    IF to_lowercase(format) = "html" THEN generate_index_html(playlists, AllNames)
    ELSE generate_index_markdown(playlists, AllNames)

IsIndexDoc(doc) == \E k \in 1..Len(doc) : doc[k].kind = "num" /\ doc[k].text = "playlists.len"

---------------------------------------------------------------------------
(* C8: playlist files are written one at a time in collection order and    *)
(* the index after all of them.  When the write of playlist k fails the    *)
(* process exits non-zero, the directory holds the files of playlists      *)
(* 1..k-1 as written and neither a later playlist's file nor the index.    *)
(* When no write fails the process exits zero with every playlist file     *)
(* and the index written.                                                  *)
C8_WritesInOrderAbortOnFailure ==
    /\ pc = "loop" => i <= Len(playlists) /\ disk = PlaylistFiles(i)
    /\ err = "write" =>
          /\ status = "exit1"
          /\ disk = PlaylistFiles(i)
          /\ \A f \in DOMAIN disk : ~IsIndexDoc(disk[f])
    /\ Succeeded =>
          /\ err = "none"
          /\ i = Len(playlists)
          /\ \A j \in 1..Len(playlists) : NameOf(j) \in DOMAIN disk
          /\ IndexName \in DOMAIN disk /\ IsIndexDoc(disk[IndexName])
          /\ \A f \in DOMAIN disk : f # IndexName => disk[f] = PlaylistFiles(i)[f]

\* the write of the third playlist's file failed after two files were written
C8_Witness ==
    /\ err = "write"
    /\ i = 2
    /\ Len(playlists) = 3
    /\ NameOf(1) # NameOf(2)
    /\ Cardinality(DOMAIN disk) = 2

---------------------------------------------------------------------------
C9_IndexEntries ==
    /\ IndexName \in DOMAIN disk
    /\ Values(disk[IndexName], "data", "filename") =
          [j \in 1..Len(playlists) |->
              IF to_lowercase(format) = "html" THEN HtmlEscaped(NameOf(j)) ELSE NameOf(j)]
    /\ Len(Values(disk[IndexName], "data", "name")) = Len(playlists)

(* C9 as stated: when two playlists get the same file name the later write *)
(* replaces the earlier one without an error: after a successful run the   *)
(* file holds the page of the last playlist with that name, and the index  *)
(* has an entry for each playlist, those of the two linking to the one     *)
(* file.                                                                   *)
C9_LastWriterWins ==
    Succeeded =>
        /\ C9_IndexEntries
        /\ \A j \in 1..Len(playlists) : \A m \in 1..Len(playlists) :
              j # m /\ NameOf(j) = NameOf(m) =>
                  disk[NameOf(j)] = Content(playlists[LastNamed(NameOf(j), Len(playlists))])

(* C9 amended: the same, for every shared file name other than the         *)
(* index's; a file name shared with the index holds the index, which is    *)
(* written last.                                                           *)
C9_LastWriterWinsButIndex ==
    Succeeded =>
        /\ C9_IndexEntries
        /\ \A j \in 1..Len(playlists) : \A m \in 1..Len(playlists) :
              j # m /\ NameOf(j) = NameOf(m) =>
                  IF NameOf(j) = IndexName
                  THEN IsIndexDoc(disk[NameOf(j)])
                  ELSE disk[NameOf(j)] = Content(playlists[LastNamed(NameOf(j), Len(playlists))])

\* a run succeeded on "a/&" followed by "a:&": a-&.<ext> holds the second one's page
C9_Witness ==
    /\ Succeeded
    /\ Len(playlists) >= 2
    /\ playlists[1].name # playlists[2].name
    /\ NameOf(1) = NameOf(2)
    /\ NameOf(1) # IndexName
    /\ disk[NameOf(1)] = Content(playlists[2])
    /\ disk[NameOf(1)] # Content(playlists[1])

---------------------------------------------------------------------------
(* C10: after every successful run index.<md|html> holds the index         *)
(* rendered over the whole collection with one generated file name per     *)
(* playlist, in order; so the page of a playlist whose sanitized name is   *)
(* "index" has been replaced by the index, and the directory holds fewer   *)
(* than (number of playlists + 1) files.                                   *)
C10_IndexWrittenLast ==
    Succeeded =>
        /\ Len(filenames) = Len(playlists)
        /\ filenames = AllNames
        /\ disk[IndexName] = IndexOverAll
        /\ \A j \in 1..Len(playlists) :
              sanitize_filename(playlists[j].name) = IndexStem =>
                  /\ NameOf(j) = IndexName
                  /\ \A f \in DOMAIN disk : disk[f] # Content(playlists[j])
                  /\ Cardinality(DOMAIN disk) < Len(playlists) + 1

\* a run succeeded on a collection with a playlist named "index" and another one
C10_Witness ==
    /\ Succeeded
    /\ Len(playlists) = 2
    /\ playlists[1].name = IndexStem
    /\ NameOf(2) # IndexName
    /\ Cardinality(DOMAIN disk) = 2

=============================================================================
